---- MODULE Spec2Model ----
(***************************************************************************)
(* The property cardinality/type codec of activitystreams: the types and   *)
(* accessors the `properties!` macro generates for a property descriptor   *)
(* (value-kinds, functional, required), and the serde encoding/decoding of *)
(* the generated types.                                                    *)
(*                                                                         *)
(* A document instance is one generated `<Name>Properties` struct.  Its    *)
(* fields are the declared properties; the stored value of a field has the *)
(* generated type:                                                         *)
(*   1 kind,  functional      the kind                                     *)
(*   1 kind,  non-functional  enum { Term(kind), Array(Vec<kind>) }        *)
(*   >1 kind, functional      enum { K1(K1), K2(K2), ... }                 *)
(*   >1 kind, non-functional  enum { Term(TermEnum), Array(Vec<TermEnum>) }*)
(* wrapped in Option<..> unless the property is `required`.                *)
(*                                                                         *)
(* Spec is the life of such a document under its accessors and serde.      *)
(* DurationSpec is the XsdDuration codec (from_str, Display) at work on the *)
(* `duration` property of a Video.                                         *)
(***************************************************************************)
EXTENDS Integers, Sequences, FiniteSets, TLC

VARIABLES host, doc, last, held
vars == <<host, doc, last, held>>

\* Longest JSON array decoded and longest list handed to set_many.
MaxLen == 2

SeqsUpTo(S, n) == UNION {[1..k -> S] : k \in 0..n}

-----------------------------------------------------------------------------
(* Results: Rust's Result<T, E> and Option<T>.                             *)

Ok(v) == [ok |-> TRUE, v |-> v]
Fail(e) == [ok |-> FALSE, e |-> e]

None == [o |-> "None"]
Some(x) == [o |-> "Some", x |-> x]

Term(t) == [c |-> "Term", t |-> t]
Array(a) == [c |-> "Array", a |-> a]

-----------------------------------------------------------------------------
(* JSON values (serde_json's data model) and the texts used in them.       *)

PlainText == "A string"
UriText == "https://example.com/1"
LangTag == "en"

JNull == [t |-> "null"]
JStr(s) == [t |-> "str", s |-> s]
JNum(n) == [t |-> "num", n |-> n]
JArr(a) == [t |-> "arr", a |-> a]
JObj(f) == [t |-> "obj", f |-> f]

\* {"@value": v, "@language": l}
LangObj(v, l) == JObj(("@value" :> JStr(v)) @@ ("@language" :> JStr(l)))
\* {"type": ty}: a document of an object type or of a link type
TypedObj(ty) == JObj("type" :> JStr(ty))

ObjectTypes == {"Note"}
LinkTypes == {"Mention"}

-----------------------------------------------------------------------------
(* Typed values of the value kinds.                                        *)

XsdString(s) == [k |-> "XsdString", s |-> s]
XsdAnyUri(s) == [k |-> "XsdAnyUri", s |-> s]
RdfLangString(v, l) == [k |-> "RdfLangString", value |-> v, language |-> l]
ObjectBox(ty) == [k |-> "ObjectBox", ty |-> ty]
LinkBox(ty) == [k |-> "LinkBox", ty |-> ty]

\* An absolute URI: the texts XsdAnyUri parses.
IsAbsoluteUri(s) == s = UriText

-----------------------------------------------------------------------------
(* Property descriptors: `Description` as parsed by the macro.  The hosts  *)
(* are the declared Properties structs, cut down to the properties that    *)
(* between them have all eight (kinds, functional, required) shapes; My    *)
(* and Our are a caller's own `properties!` declarations, which give the   *)
(* required shapes the vocabulary does not declare.                        *)

Description(kinds, functional, required, rename, aliases) ==
    [kinds |-> kinds, functional |-> functional, required |-> required,
     rename |-> rename, aliases |-> aliases]

ObjectProperties ==
    [id      |-> Description(<<"XsdAnyUri">>, TRUE, FALSE, None, <<"@id">>),
     summary |-> Description(<<"XsdString", "RdfLangString">>, FALSE, FALSE, None, <<>>)]

RelationshipProperties ==
    [relationship |-> Description(<<"XsdAnyUri", "ObjectBox">>, FALSE, FALSE, None, <<>>)]

PlaceProperties ==
    [units |-> Description(<<"XsdAnyUri", "XsdString">>, TRUE, FALSE, None, <<>>)]

ApActorProperties ==
    [inbox   |-> Description(<<"XsdAnyUri">>, TRUE, TRUE, None, <<>>),
     streams |-> Description(<<"XsdAnyUri">>, FALSE, FALSE, None, <<>>)]

CollectionProperties ==
    [items |-> Description(<<"XsdString", "ObjectBox", "LinkBox">>, FALSE, TRUE, None, <<>>)]

MyProperties ==
    [mirrors |-> Description(<<"XsdAnyUri">>, FALSE, TRUE, None, <<>>),
     origin  |-> Description(<<"XsdAnyUri", "XsdString">>, TRUE, TRUE, None, <<>>)]

OurProperties ==
    [sources |-> Description(<<"XsdAnyUri", "LinkBox">>, FALSE, TRUE, None, <<>>)]

TombstoneProperties ==
    [former_type |-> Description(<<"XsdAnyUri", "ObjectBox">>, FALSE, FALSE, None, <<>>)]

\* A caller's declaration with a rename; its kind String is modelled by
\* XsdString, which wraps a String transparently.
YourProperties ==
    [context |-> Description(<<"XsdString">>, FALSE, FALSE, Some("@context"), <<>>)]

\* The ObjectProperties of the crate example's Video, cut down to `duration`.
VideoProperties ==
    [duration |-> Description(<<"XsdDuration">>, TRUE, FALSE, None, <<>>)]

Hosts ==
    {"Object", "Place", "Relationship", "Tombstone", "ApActor", "Collection",
     "My", "Our", "Your"}

Declared(h) ==
    CASE h = "Object" -> ObjectProperties
      [] h = "Place" -> PlaceProperties
      [] h = "Relationship" -> RelationshipProperties
      [] h = "ApActor" -> ApActorProperties
      [] h = "Collection" -> CollectionProperties
      [] h = "My" -> MyProperties
      [] h = "Our" -> OurProperties
      [] h = "Tombstone" -> TombstoneProperties
      [] h = "Your" -> YourProperties
      [] h = "Video" -> VideoProperties

Fields == [h \in Hosts \cup {"Video"} |-> Declared(h)]

\* A descriptor with no value-kinds is dropped: it is no field of the struct.
Props(h) == {p \in DOMAIN Fields[h] : Len(Fields[h][p].kinds) > 0}

Desc(h, p) == Fields[h][p]

SingleKind(d) == Len(d.kinds) = 1

KindsOf(d) == {d.kinds[i] : i \in 1..Len(d.kinds)}

\* The letters of the declared field names.
Spelling ==
    [id |-> <<"i", "d">>,
     summary |-> <<"s", "u", "m", "m", "a", "r", "y">>,
     relationship |-> <<"r", "e", "l", "a", "t", "i", "o", "n", "s", "h", "i", "p">>,
     former_type |-> <<"f", "o", "r", "m", "e", "r", "_", "t", "y", "p", "e">>,
     units |-> <<"u", "n", "i", "t", "s">>,
     inbox |-> <<"i", "n", "b", "o", "x">>,
     streams |-> <<"s", "t", "r", "e", "a", "m", "s">>,
     items |-> <<"i", "t", "e", "m", "s">>,
     mirrors |-> <<"m", "i", "r", "r", "o", "r", "s">>,
     origin |-> <<"o", "r", "i", "g", "i", "n">>,
     sources |-> <<"s", "o", "u", "r", "c", "e", "s">>,
     context |-> <<"c", "o", "n", "t", "e", "x", "t">>,
     duration |-> <<"d", "u", "r", "a", "t", "i", "o", "n">>]

LowerCase ==
    <<"a", "b", "c", "d", "e", "f", "g", "h", "i", "j", "k", "l", "m",
      "n", "o", "p", "q", "r", "s", "t", "u", "v", "w", "x", "y", "z">>
UpperCase ==
    <<"A", "B", "C", "D", "E", "F", "G", "H", "I", "J", "K", "L", "M",
      "N", "O", "P", "Q", "R", "S", "T", "U", "V", "W", "X", "Y", "Z">>

ToAsciiUppercase(c) ==
    IF \E i \in 1..Len(LowerCase) : LowerCase[i] = c
    THEN UpperCase[CHOOSE i \in 1..Len(LowerCase) : LowerCase[i] = c] ELSE c

ToAsciiLowercase(c) ==
    IF \E i \in 1..Len(UpperCase) : UpperCase[i] = c
    THEN LowerCase[CHOOSE i \in 1..Len(UpperCase) : UpperCase[i] = c] ELSE c

\* serde's rename rule PascalCase on a field name: every '_' is dropped and
\* the letter after it, and the first letter, are made upper case.
RECURSIVE PascalCase(_, _)
PascalCase(field, capitalize) ==
    IF field = <<>> THEN <<>>
    ELSE IF Head(field) = "_" THEN PascalCase(Tail(field), TRUE)
    ELSE IF capitalize
    THEN <<ToAsciiUppercase(Head(field))>> \o PascalCase(Tail(field), FALSE)
    ELSE <<Head(field)>> \o PascalCase(Tail(field), FALSE)

\* #[serde(rename_all = "camelCase")]: PascalCase with its first letter made
\* lower case.
CamelCase(field) ==
    LET pascal == PascalCase(field, TRUE)
    IN  IF pascal = <<>> THEN pascal
        ELSE <<ToAsciiLowercase(Head(pascal))>> \o Tail(pascal)

\* The string of a sequence of letters.
RECURSIVE Joined(_)
Joined(chars) == IF chars = <<>> THEN "" ELSE Head(chars) \o Joined(Tail(chars))

\* Mutant of KeyOf: the declared name is written as it is.
KeyOf_DeclaredName(h, p) == IF Desc(h, p).rename # None THEN Desc(h, p).rename.x ELSE p

\* The key of every field: its #[serde(rename)], else its name under the
\* struct's rename_all = "camelCase".
Keys ==
    [h \in DOMAIN Fields |-> [p \in Props(h) |->
        IF Desc(h, p).rename # None THEN Desc(h, p).rename.x
        ELSE Joined(CamelCase(Spelling[p]))]]

\* The key a field is written under.
KeyOf(h, p) == Keys[h][p]

-----------------------------------------------------------------------------
(* XsdDuration: a time::Duration, here in whole seconds, with its FromStr   *)
(* and Display.  A text is a sequence of one-character strings.  The        *)
(* quantities modelled stay far below the i64 range, so that no arithmetic  *)
(* of time::Duration overflows.                                             *)

XsdDuration(secs) == [k |-> "XsdDuration", secs |-> secs]

Digits == <<"0", "1", "2", "3", "4", "5", "6", "7", "8", "9">>

IsDigit(c) == \E n \in 1..Len(Digits) : Digits[n] = c

DigitValue(c) == (CHOOSE n \in 1..Len(Digits) : Digits[n] = c) - 1

\* str::find(c): the index, from 0, of the first c.
Find(s, c) ==
    IF \E i \in 1..Len(s) : s[i] = c
    THEN Some((CHOOSE i \in 1..Len(s) :
                  s[i] = c /\ \A k \in 1..(i - 1) : s[k] # c) - 1)
    ELSE None

\* str::trim_start_matches(c): s without every leading c.
TrimStartMatches(s, c) ==
    LET n == CHOOSE n \in 0..Len(s) :
                 /\ \A i \in 1..n : s[i] = c
                 /\ n = Len(s) \/ s[n + 1] # c
    IN  SubSeq(s, n + 1, Len(s))

\* str::split_at(index)
SplitAt(s, index) == <<SubSeq(s, 1, index), SubSeq(s, index + 1, Len(s))>>

RECURSIVE DigitsValue(_)
DigitsValue(s) ==
    IF s = <<>> THEN 0
    ELSE 10 * DigitsValue(SubSeq(s, 1, Len(s) - 1)) + DigitValue(s[Len(s)])

\* str::parse::<i64>(): one optional sign, then one digit or more.
ParseI64(s) ==
    LET signed == s # <<>> /\ s[1] \in {"+", "-"}
        body == IF signed THEN Tail(s) ELSE s
    IN  IF body = <<>> \/ \E i \in 1..Len(body) : ~IsDigit(body[i])
        THEN Fail("invalid digit")
        ELSE Ok(IF signed /\ s[1] = "-" THEN 0 - DigitsValue(body)
                ELSE DigitsValue(body))

\* Mutant of parse_next: text before the designator that is no integer
\* counts as 0.
parse_next_Lenient(s, c) ==
    LET index == Find(s, c)
        parts == SplitAt(s, index.x)
        i == ParseI64(parts[1])
    IN  IF index = None THEN Ok(<<0, s>>)
        ELSE IF ~i.ok THEN Ok(<<0, TrimStartMatches(parts[2], c)>>)
        ELSE Ok(<<i.v, TrimStartMatches(parts[2], c)>>)

\* parse_next(s, c): the integer before the first c and the text after it,
\* or 0 and s when there is no c.
parse_next(s, c) ==
    LET index == Find(s, c)
        parts == SplitAt(s, index.x)
        i == ParseI64(parts[1])
    IN  IF index = None THEN Ok(<<0, s>>)
        ELSE IF ~i.ok THEN Fail("Could not parse Duration")
        ELSE Ok(<<i.v, TrimStartMatches(parts[2], c)>>)

SecondsPerMinute == 60
SecondsPerHour == 3600
SecondsPerDay == 86400

\* Mutant of from_str: a month counts 30 days.
from_str_ThirtyDayMonths(s0) ==
    LET s1 == TrimStartMatches(s0, "P")
        negative == Find(s1, "-") = Some(0)
        s == TrimStartMatches(s1, "-")
        index == Find(s, "T")
        large == IF index = None THEN s ELSE SplitAt(s, index.x)[1]
        small == IF index = None THEN <<>>
                 ELSE TrimStartMatches(SplitAt(s, index.x)[2], "T")
        years == parse_next(large, "Y")
        months == parse_next(years.v[2], "M")
        days == parse_next(months.v[2], "D")
        hours == parse_next(small, "H")
        minutes == parse_next(hours.v[2], "M")
        seconds == parse_next(minutes.v[2], "S")
        duration == (365 * years.v[1] + 30 * months.v[1] + days.v[1]) * SecondsPerDay
                      + hours.v[1] * SecondsPerHour
                      + minutes.v[1] * SecondsPerMinute
                      + seconds.v[1]
    IN  IF Find(s0, "P") # Some(0) THEN Fail("Could not parse Duration")
        ELSE IF ~years.ok \/ ~months.ok \/ ~days.ok
        THEN Fail("Could not parse Duration")
        ELSE IF ~hours.ok \/ ~minutes.ok \/ ~seconds.ok
        THEN Fail("Could not parse Duration")
        ELSE Ok(XsdDuration(IF negative THEN duration * (0 - 1) ELSE duration))

\* <XsdDuration as FromStr>::from_str: the text must start with P; the sign
\* is looked for after the P; the text is cut at the first T into the date
\* part and the time part, and what parse_next leaves over after D and after
\* S is dropped.
from_str(s0) ==
    LET s1 == TrimStartMatches(s0, "P")
        negative == Find(s1, "-") = Some(0)
        s == TrimStartMatches(s1, "-")
        index == Find(s, "T")
        large == IF index = None THEN s ELSE SplitAt(s, index.x)[1]
        small == IF index = None THEN <<>>
                 ELSE TrimStartMatches(SplitAt(s, index.x)[2], "T")
        years == parse_next(large, "Y")
        months == parse_next(years.v[2], "M")
        days == parse_next(months.v[2], "D")
        hours == parse_next(small, "H")
        minutes == parse_next(hours.v[2], "M")
        seconds == parse_next(minutes.v[2], "S")
        duration == (365 * years.v[1] + 31 * months.v[1] + days.v[1]) * SecondsPerDay
                      + hours.v[1] * SecondsPerHour
                      + minutes.v[1] * SecondsPerMinute
                      + seconds.v[1]
    IN  IF Find(s0, "P") # Some(0) THEN Fail("Could not parse Duration")
        ELSE IF ~years.ok \/ ~months.ok \/ ~days.ok
        THEN Fail("Could not parse Duration")
        ELSE IF ~hours.ok \/ ~minutes.ok \/ ~seconds.ok
        THEN Fail("Could not parse Duration")
        ELSE Ok(XsdDuration(IF negative THEN duration * (0 - 1) ELSE duration))

\* format!("{}", n) of a non-negative integer
RECURSIVE FormatI64(_)
FormatI64(n) ==
    IF n < 10 THEN <<Digits[n + 1]>>
    ELSE FormatI64(n \div 10) \o <<Digits[(n % 10) + 1]>>

\* Mutant of fmt: the T is written when seconds are left after the whole
\* minutes are taken off.
fmt_MarkerBySeconds(v) ==
    LET negative == 0 > v.secs
        d0 == IF negative THEN v.secs * (0 - 1) ELSE v.secs
        s0 == IF negative THEN <<"P", "-">> ELSE <<"P">>
        whole_days == d0 \div SecondsPerDay
        s1 == IF whole_days > 0 THEN s0 \o FormatI64(whole_days) \o <<"D">> ELSE s0
        d1 == d0 - whole_days * SecondsPerDay
        s2 == IF d1 % SecondsPerMinute > 0 THEN s1 \o <<"T">> ELSE s1
        whole_hours == d1 \div SecondsPerHour
        s3 == IF whole_hours > 0 THEN s2 \o FormatI64(whole_hours) \o <<"H">> ELSE s2
        d2 == d1 - whole_hours * SecondsPerHour
        whole_minutes == d2 \div SecondsPerMinute
        s4 == IF whole_minutes > 0 THEN s3 \o FormatI64(whole_minutes) \o <<"M">> ELSE s3
        d3 == d2 - whole_minutes * SecondsPerMinute
    IN  IF d3 > 0 THEN s4 \o FormatI64(d3) \o <<"S">> ELSE s4

\* Mutant of fmt: the T is written whatever is left after the days.
fmt_MarkerAlways(v) ==
    LET negative == 0 > v.secs
        d0 == IF negative THEN v.secs * (0 - 1) ELSE v.secs
        s0 == IF negative THEN <<"P", "-">> ELSE <<"P">>
        whole_days == d0 \div SecondsPerDay
        s1 == IF whole_days > 0 THEN s0 \o FormatI64(whole_days) \o <<"D">> ELSE s0
        d1 == d0 - whole_days * SecondsPerDay
        s2 == s1 \o <<"T">>
        whole_hours == d1 \div SecondsPerHour
        s3 == IF whole_hours > 0 THEN s2 \o FormatI64(whole_hours) \o <<"H">> ELSE s2
        d2 == d1 - whole_hours * SecondsPerHour
        whole_minutes == d2 \div SecondsPerMinute
        s4 == IF whole_minutes > 0 THEN s3 \o FormatI64(whole_minutes) \o <<"M">> ELSE s3
        d3 == d2 - whole_minutes * SecondsPerMinute
    IN  IF d3 > 0 THEN s4 \o FormatI64(d3) \o <<"S">> ELSE s4

\* Mutant of fmt: the minutes are not taken off before the seconds are
\* written.
fmt_SecondsNotReduced(v) ==
    LET negative == 0 > v.secs
        d0 == IF negative THEN v.secs * (0 - 1) ELSE v.secs
        s0 == IF negative THEN <<"P", "-">> ELSE <<"P">>
        whole_days == d0 \div SecondsPerDay
        s1 == IF whole_days > 0 THEN s0 \o FormatI64(whole_days) \o <<"D">> ELSE s0
        d1 == d0 - whole_days * SecondsPerDay
        s2 == IF d1 > 0 THEN s1 \o <<"T">> ELSE s1
        whole_hours == d1 \div SecondsPerHour
        s3 == IF whole_hours > 0 THEN s2 \o FormatI64(whole_hours) \o <<"H">> ELSE s2
        d2 == d1 - whole_hours * SecondsPerHour
        whole_minutes == d2 \div SecondsPerMinute
        s4 == IF whole_minutes > 0 THEN s3 \o FormatI64(whole_minutes) \o <<"M">> ELSE s3
    IN  IF d2 > 0 THEN s4 \o FormatI64(d2) \o <<"S">> ELSE s4

\* <XsdDuration as Display>::fmt: "P-" for a negative duration, else "P";
\* then the whole days, a T when seconds are left, the whole hours, the
\* whole minutes and the seconds, each only when above 0.
fmt(v) ==
    LET negative == 0 > v.secs
        d0 == IF negative THEN v.secs * (0 - 1) ELSE v.secs
        s0 == IF negative THEN <<"P", "-">> ELSE <<"P">>
        whole_days == d0 \div SecondsPerDay
        s1 == IF whole_days > 0 THEN s0 \o FormatI64(whole_days) \o <<"D">> ELSE s0
        d1 == d0 - whole_days * SecondsPerDay
        s2 == IF d1 > 0 THEN s1 \o <<"T">> ELSE s1
        whole_hours == d1 \div SecondsPerHour
        s3 == IF whole_hours > 0 THEN s2 \o FormatI64(whole_hours) \o <<"H">> ELSE s2
        d2 == d1 - whole_hours * SecondsPerHour
        whole_minutes == d2 \div SecondsPerMinute
        s4 == IF whole_minutes > 0 THEN s3 \o FormatI64(whole_minutes) \o <<"M">> ELSE s3
        d3 == d2 - whole_minutes * SecondsPerMinute
    IN  IF d3 > 0 THEN s4 \o FormatI64(d3) \o <<"S">> ELSE s4

\* Deserialize: String::deserialize, then s.parse().
DeXsdDuration(j) == IF j.t # "str" THEN Fail("invalid type") ELSE from_str(j.s)

\* Serialize: serializer.serialize_str(&self.to_string())
SerXsdDuration(v) == JStr(fmt(v))

-----------------------------------------------------------------------------
(* Deserialize / Serialize of the value kinds.                             *)

\* #[serde(transparent)] struct XsdString(String): a JSON string.
DeXsdString(j) ==
    IF j.t = "str" THEN Ok(XsdString(j.s)) ELSE Fail("invalid type")

\* A JSON string that parses as an absolute URI.
DeXsdAnyUri(j) ==
    IF j.t = "str" /\ IsAbsoluteUri(j.s) THEN Ok(XsdAnyUri(j.s))
    ELSE Fail("invalid type")

\* #[derive(Deserialize)] on a struct of two named fields: the derived visitor
\* reads a map with both keys (unknown keys are ignored), and it also reads a
\* sequence of exactly two elements, taken as the fields in declaration order.
DeRdfLangString(j) ==
    CASE j.t = "obj" ->
           IF /\ {"@value", "@language"} \subseteq DOMAIN j.f
              /\ DeXsdString(j.f["@value"]).ok
              /\ DeXsdString(j.f["@language"]).ok
           THEN Ok(RdfLangString(j.f["@value"].s, j.f["@language"].s))
           ELSE Fail("missing struct field")
      [] j.t = "arr" ->
           IF /\ Len(j.a) = 2
              /\ DeXsdString(j.a[1]).ok
              /\ DeXsdString(j.a[2]).ok
           THEN Ok(RdfLangString(j.a[1].s, j.a[2].s))
           ELSE Fail("invalid length")
      [] OTHER -> Fail("invalid type")

\* A boxed document: a JSON object whose type names a registered object type.
DeObjectBox(j) ==
    IF /\ j.t = "obj"
       /\ "type" \in DOMAIN j.f
       /\ j.f["type"].t = "str"
       /\ j.f["type"].s \in ObjectTypes
    THEN Ok(ObjectBox(j.f["type"].s)) ELSE Fail("unknown type")

DeLinkBox(j) ==
    IF /\ j.t = "obj"
       /\ "type" \in DOMAIN j.f
       /\ j.f["type"].t = "str"
       /\ j.f["type"].s \in LinkTypes
    THEN Ok(LinkBox(j.f["type"].s)) ELSE Fail("unknown type")

DeKind(K, j) ==
    CASE K = "XsdString" -> DeXsdString(j)
      [] K = "XsdAnyUri" -> DeXsdAnyUri(j)
      [] K = "RdfLangString" -> DeRdfLangString(j)
      [] K = "ObjectBox" -> DeObjectBox(j)
      [] K = "LinkBox" -> DeLinkBox(j)

SerKind(v) ==
    CASE v.k = "XsdString" -> JStr(v.s)
      [] v.k = "XsdAnyUri" -> JStr(v.s)
      [] v.k = "RdfLangString" -> LangObj(v.value, v.language)
      [] v.k = "ObjectBox" -> TypedObj(v.ty)
      [] v.k = "LinkBox" -> TypedObj(v.ty)

-----------------------------------------------------------------------------
(* Default::default() of the derived struct.                               *)

DefaultKind(K) ==
    CASE K = "XsdString" -> XsdString("")
      [] K = "XsdAnyUri" -> XsdAnyUri(UriText)
      [] K = "RdfLangString" -> RdfLangString("", "")

DefaultField(d) ==
    IF ~d.required THEN None
    ELSE IF ~d.functional THEN Array(<<>>)
    ELSE DefaultKind(d.kinds[1])

Default(h) == [p \in Props(h) |-> DefaultField(Desc(h, p))]

-----------------------------------------------------------------------------
(* Deserialize / Serialize of the generated types.  Every generated enum   *)
(* is #[serde(untagged)]: the variants are tried in declaration order on   *)
(* the buffered value and the first that deserializes is taken.            *)

Matching(d, j) == {i \in 1..Len(d.kinds) : DeKind(d.kinds[i], j).ok}

\* Mutant of FirstOf: the last of the matching variants is taken.
FirstOf_Last(S) == CHOOSE i \in S : \A k \in S : i >= k

FirstOf(S) == CHOOSE i \in S : \A k \in S : i <= k

\* enum TermEnum { K1(K1), K2(K2), ... }
DeTermEnum(d, j) ==
    IF Matching(d, j) = {} THEN Fail("data did not match any variant")
    ELSE DeKind(d.kinds[FirstOf(Matching(d, j))], j)

\* The element type: the kind itself, or the enum of the kinds.
DeElem(d, j) == IF SingleKind(d) THEN DeKind(d.kinds[1], j) ELSE DeTermEnum(d, j)

\* Vec<element>
DeVec(d, j) ==
    IF j.t = "arr" /\ \A i \in 1..Len(j.a) : DeElem(d, j.a[i]).ok
    THEN Ok([i \in 1..Len(j.a) |-> DeElem(d, j.a[i]).v])
    ELSE Fail("invalid type")

\* enum { Term(element), Array(Vec<element>) }
DeEnum(d, j) ==
    LET term == DeElem(d, j)
        array == DeVec(d, j)
    IN  IF term.ok THEN Ok(Term(term.v))
        ELSE IF array.ok THEN Ok(Array(array.v))
        ELSE Fail("data did not match any variant")

\* The field's type without its Option.
DeType(d, j) == IF d.functional THEN DeElem(d, j) ELSE DeEnum(d, j)

SerType(d, x) ==
    IF d.functional THEN SerKind(x)
    ELSE IF x.c = "Term" THEN SerKind(x.t)
    ELSE JArr([i \in 1..Len(x.a) |-> SerKind(x.a[i])])

\* The keys a field is read from: its key and its #[serde(alias)]es.
ReadKeys(h, p) ==
    {KeyOf(h, p)} \cup {Desc(h, p).aliases[i] : i \in 1..Len(Desc(h, p).aliases)}

\* Mutant of DeField: a field that is not there is filled with its default,
\* as under #[serde(default)].
DeField_Defaulted(h, p, w) ==
    LET d == Desc(h, p)
        present == ReadKeys(h, p) \cap DOMAIN w
        j == w[CHOOSE key \in present : TRUE]
        r == DeType(d, j)
    IN  IF Cardinality(present) > 1 THEN Fail("duplicate field")
        ELSE IF present = {} THEN Ok(DefaultField(d))
        ELSE IF d.required THEN r
        ELSE IF j = JNull THEN Ok(None)
        ELSE IF r.ok THEN Ok(Some(r.v))
        ELSE r

\* One field of the derived struct Deserialize, from the wire document w (a
\* function from the keys present to JSON values).  `pub f: T` fails when no
\* key is present; `pub f: Option<T>` reads absence and null as None.
DeField(h, p, w) ==
    LET d == Desc(h, p)
        present == ReadKeys(h, p) \cap DOMAIN w
        j == w[CHOOSE key \in present : TRUE]
        r == DeType(d, j)
    IN  IF Cardinality(present) > 1 THEN Fail("duplicate field")
        ELSE IF d.required
        THEN IF present = {} THEN Fail("missing field") ELSE r
        ELSE IF present = {} \/ j = JNull THEN Ok(None)
        ELSE IF r.ok THEN Ok(Some(r.v))
        ELSE r

\* Deserialize of the struct: every field, or the error.  An error met at a
\* key that is present comes before the missing-field error, which is raised
\* once the whole map has been read.
Deserialize(h, w) ==
    LET field == [p \in Props(h) |-> DeField(h, p, w)]
        bad == {p \in Props(h) : ~field[p].ok}
        wrong == {p \in bad : field[p].e # "missing field"}
    IN  IF bad = {} THEN Ok([p \in Props(h) |-> field[p].v])
        ELSE IF wrong # {} THEN Fail("wrong shape")
        ELSE Fail("missing field")

\* #[serde(skip_serializing_if = "Option::is_none")] on an Option field.
SkipSerializing(d, x) == ~d.required /\ x = None

\* The stored value without its Option.
Unwrapped(d, x) == IF d.required THEN x ELSE x.x

\* Serialize of the struct: the wire document.
Serialize(h, dc) ==
    LET emitted == {p \in Props(h) : ~SkipSerializing(Desc(h, p), dc[p])}
        field(key) == CHOOSE p \in emitted : KeyOf(h, p) = key
    IN  [key \in {KeyOf(h, p) : p \in emitted} |->
            IF dc[field(key)] = None /\ ~Desc(h, field(key)).required THEN JNull
            ELSE SerType(Desc(h, field(key)), Unwrapped(Desc(h, field(key)), dc[field(key)]))]

-----------------------------------------------------------------------------
(* What a caller hands to set / set_many: an `item: T` with                *)
(* T: TryInto<kind>.  A string goes through From<&str> (XsdString) or      *)
(* TryFrom<&str> (XsdAnyUri); a value of the kind itself converts by the   *)
(* reflexive TryFrom.                                                      *)

StrItem(s) == [src |-> "str", s |-> s]
ValItem(v) == [src |-> "val", v |-> v]

Items ==
    {StrItem(PlainText), StrItem(UriText),
     ValItem(RdfLangString(PlainText, LangTag)),
     ValItem(ObjectBox("Note")), ValItem(LinkBox("Mention"))}

\* The items for which `T: TryInto<K>` holds, so that the call compiles.
ItemsFor(K) ==
    {it \in Items : \/ it.src = "str" /\ K \in {"XsdString", "XsdAnyUri"}
                    \/ it.src = "val" /\ it.v.k = K}

TryInto(K, it) ==
    IF it.src = "val" THEN Ok(it.v)
    ELSE IF K = "XsdString" THEN Ok(XsdString(it.s))
    ELSE IF IsAbsoluteUri(it.s) THEN Ok(XsdAnyUri(it.s))
    ELSE Fail("conversion failed")

\* item.into_iter().map(TryInto::try_into).collect::<Result<Vec<_>, _>>()
TryIntoAll(K, its) ==
    IF \A i \in 1..Len(its) : TryInto(K, its[i]).ok
    THEN Ok([i \in 1..Len(its) |-> TryInto(K, its[i]).v])
    ELSE Fail("conversion failed")

-----------------------------------------------------------------------------
(* The generated accessors.  Each takes the struct dc of host h and gives  *)
(* [doc |-> the struct afterwards, res |-> the Result returned].           *)

\* Mutant of Wrapped: every field is an Option.
Wrapped_Always(d, x) == Some(x)

\* The field's value with its Option: `Some(..)` unless the field is required.
Wrapped(d, x) == IF d.required THEN x ELSE Some(x)

\* Mutant of Set: a non-functional field is given a one-element Array.
Set_AsSingleton(h, dc, p, K, it) ==
    LET d == Desc(h, p)
        c == TryInto(K, it)
    IN  IF ~c.ok THEN [doc |-> dc, res |-> Fail(c.e)]
        ELSE [doc |-> [dc EXCEPT ![p] =
                          Wrapped(d, IF d.functional THEN c.v ELSE Array(<<c.v>>))],
              res |-> Ok("self")]

\* Mutant of Set: the field is cleared before the item is converted.
Set_ClearedFirst(h, dc, p, K, it) ==
    LET d == Desc(h, p)
        c == TryInto(K, it)
    IN  IF ~c.ok THEN [doc |-> [dc EXCEPT ![p] = DefaultField(d)], res |-> Fail(c.e)]
        ELSE [doc |-> [dc EXCEPT ![p] =
                          Wrapped(d, IF d.functional THEN c.v ELSE Term(c.v))],
              res |-> Ok("self")]

\* Mutant of Set: the struct is built anew around the value written.
Set_OthersReset(h, dc, p, K, it) ==
    LET d == Desc(h, p)
        c == TryInto(K, it)
    IN  IF ~c.ok THEN [doc |-> dc, res |-> Fail(c.e)]
        ELSE [doc |-> [Default(h) EXCEPT ![p] =
                          Wrapped(d, IF d.functional THEN c.v ELSE Term(c.v))],
              res |-> Ok("self")]

\* set_<p> / set_<p>_<kind>: self.p = ..(item.try_into()?); Ok(self)
Set(h, dc, p, K, it) ==
    LET d == Desc(h, p)
        c == TryInto(K, it)
    IN  IF ~c.ok THEN [doc |-> dc, res |-> Fail(c.e)]
        ELSE [doc |-> [dc EXCEPT ![p] =
                          Wrapped(d, IF d.functional THEN c.v ELSE Term(c.v))],
              res |-> Ok("self")]

\* Mutant of SetMany: a stored Term is kept as the first element.
SetMany_TermKept(h, dc, p, K, its) ==
    LET d == Desc(h, p)
        c == TryIntoAll(K, its)
        x == dc[p]
        kept == IF (~d.required /\ x = None) \/ Unwrapped(d, x).c # "Term" THEN <<>>
                ELSE <<Unwrapped(d, x).t>>
    IN  IF ~c.ok THEN [doc |-> dc, res |-> Fail(c.e)]
        ELSE [doc |-> [dc EXCEPT ![p] = Wrapped(d, Array(kept \o c.v))],
              res |-> Ok("self")]

\* Mutant of SetMany: the elements converted before the failing one are
\* committed.
SetMany_PrefixKept(h, dc, p, K, its) ==
    LET d == Desc(h, p)
        c == TryIntoAll(K, its)
        bad == {i \in 1..Len(its) : ~TryInto(K, its[i]).ok}
        first == CHOOSE i \in bad : \A k \in bad : i <= k
    IN  IF ~c.ok
        THEN [doc |-> [dc EXCEPT ![p] = Wrapped(d, Array(
                          [i \in 1..(first - 1) |-> TryInto(K, its[i]).v]))],
              res |-> Fail(c.e)]
        ELSE [doc |-> [dc EXCEPT ![p] = Wrapped(d, Array(c.v))],
              res |-> Ok("self")]

\* set_many_<p>s / set_many_<p>_<kind>s, generated for non-functional fields
SetMany(h, dc, p, K, its) ==
    LET d == Desc(h, p)
        c == TryIntoAll(K, its)
    IN  IF ~c.ok THEN [doc |-> dc, res |-> Fail(c.e)]
        ELSE [doc |-> [dc EXCEPT ![p] = Wrapped(d, Array(c.v))],
              res |-> Ok("self")]

\* The fields a delete_<p> is generated for: the `delete` tokens are built in
\* the branch of several kinds, non-functional, and only there.
HasDelete(d) == ~SingleKind(d) /\ ~d.functional /\ ~d.required

\* Mutant of Delete: the field is reset to the default of its enum.
Delete_ToEmptyArray(h, dc, p) ==
    [doc |-> [dc EXCEPT ![p] = Some(Array(<<>>))], res |-> Ok("self")]

\* delete_<p>: self.p = None; self
Delete(h, dc, p) == [doc |-> [dc EXCEPT ![p] = None], res |-> Ok("self")]

\* Mutant of Get: the first element of a stored Array is read as a Term is.
Get_HeadOfArray(h, dc, p, K) ==
    LET d == Desc(h, p)
        x == dc[p]
    IN  IF ~d.required /\ x = None THEN None
        ELSE LET y == Unwrapped(d, x)
             IN  IF d.functional
                 THEN IF SingleKind(d) \/ y.k = K THEN Some(y) ELSE None
                 ELSE IF y.c = "Term" /\ (SingleKind(d) \/ y.t.k = K)
                      THEN Some(y.t)
                      ELSE IF y.c = "Array" /\ y.a # <<>> /\ (SingleKind(d) \/ y.a[1].k = K)
                      THEN Some(y.a[1]) ELSE None

\* Mutant of Get: a one-element Array is read as its element.
Get_SingletonUnwrapped(h, dc, p, K) ==
    LET d == Desc(h, p)
        x == dc[p]
    IN  IF ~d.required /\ x = None THEN None
        ELSE LET y == Unwrapped(d, x)
             IN  IF d.functional
                 THEN IF SingleKind(d) \/ y.k = K THEN Some(y) ELSE None
                 ELSE IF y.c = "Term" /\ (SingleKind(d) \/ y.t.k = K)
                      THEN Some(y.t)
                      ELSE IF y.c = "Array" /\ Len(y.a) = 1 /\ (SingleKind(d) \/ y.a[1].k = K)
                      THEN Some(y.a[1]) ELSE None

\* Mutant of Get: the value is given whatever its kind.
Get_KindIgnored(h, dc, p, K) ==
    LET d == Desc(h, p)
        x == dc[p]
    IN  IF ~d.required /\ x = None THEN None
        ELSE LET y == Unwrapped(d, x)
             IN  IF d.functional THEN Some(y)
                 ELSE IF y.c = "Term" THEN Some(y.t) ELSE None

\* get_<p> / get_<p>_<kind>: the value, when the stored shape is one value of
\* kind K.  (For a required functional field of one kind the getter returns
\* the reference itself, which is written Some(v) here.)
Get(h, dc, p, K) ==
    LET d == Desc(h, p)
        x == dc[p]
    IN  IF ~d.required /\ x = None THEN None
        ELSE LET y == Unwrapped(d, x)
             IN  IF d.functional
                 THEN IF SingleKind(d) \/ y.k = K THEN Some(y) ELSE None
                 ELSE IF y.c = "Term" /\ (SingleKind(d) \/ y.t.k = K)
                      THEN Some(y.t) ELSE None

\* Mutant of GetMany: a stored Term is given as a one-element list.
GetMany_TermWrapped(h, dc, p, K) ==
    LET d == Desc(h, p)
        x == dc[p]
    IN  IF ~d.required /\ x = None THEN None
        ELSE IF Unwrapped(d, x).c = "Array" THEN Some(Unwrapped(d, x).a)
        ELSE Some(<<Unwrapped(d, x).t>>)

\* get_many_<p>s / get_many_<p>_<kind>s: the slice, when the stored shape is
\* Array.  For several kinds the slice is of the term enum, whatever K is.
GetMany(h, dc, p, K) ==
    LET d == Desc(h, p)
        x == dc[p]
    IN  IF ~d.required /\ x = None THEN None
        ELSE IF Unwrapped(d, x).c = "Array" THEN Some(Unwrapped(d, x).a)
        ELSE None

\* The accessors generated for a field: for one kind the names carry the
\* field only (kind None); for several kinds there is one of each per kind,
\* named after the field and the kind.
Accessors(d) ==
    LET named == IF SingleKind(d) THEN {None} ELSE {Some(K) : K \in KindsOf(d)}
        ops == IF d.functional THEN {"get", "set"}
               ELSE {"get", "set", "get_many", "set_many"}
    IN  {[op |-> o, kind |-> k] : o \in ops, k \in named}
          \cup (IF HasDelete(d) THEN {[op |-> "delete", kind |-> None]} ELSE {})

-----------------------------------------------------------------------------
(* The state machine: one document instance `doc` of a host struct, held   *)
(* by its caller, who sets, deletes and re-decodes it.  `last` records the *)
(* last call, what it was given and its outcome.                           *)

\* The JSON values a decoded document carries under the key of a property
\* with descriptor d: a plain string, and the string and objects that one of
\* its kinds reads and XsdString does not; their arrays; values no kind reads.
ElemsFor(d) ==
    {JStr(PlainText)}
      \cup {j \in {JStr(UriText), LangObj(PlainText, LangTag),
                   TypedObj("Note"), TypedObj("Mention")} :
               \E K \in KindsOf(d) \ {"XsdString"} : DeKind(K, j).ok}

JsonFor(d) ==
    ElemsFor(d) \cup {JNull, JNum(1), JObj("unknown" :> JNull)}
          \cup {JArr(a) : a \in SeqsUpTo(ElemsFor(d), MaxLen)}
          \cup {JArr(<<JNum(1)>>), JArr(<<JArr(<<JStr(PlainText), JStr(LangTag)>>)>>)}

Absent == [t |-> "absent"]

\* The inputs of the calls, per host and property and per kind.
Documents == [h \in Hosts |-> [p \in Props(h) |-> JsonFor(Desc(h, p)) \cup {Absent}]]

Kinds == UNION {UNION {KindsOf(Desc(h, p)) : p \in Props(h)} : h \in Hosts}

ItemLists == [K \in Kinds |-> SeqsUpTo(ItemsFor(K), MaxLen)]

\* The wire document `base`, with property p's keys replaced by `key: j` (by
\* nothing when j is Absent).
Rewritten(h, base, p, key, j) ==
    LET keep == DOMAIN base \ ReadKeys(h, p)
    IN  [k \in keep \cup (IF j = Absent THEN {} ELSE {key}) |->
            IF k \in keep THEN base[k] ELSE j]

\* A call: the operation, the property, the kind named by the accessor (for a
\* decode, the key the value was carried under), what was given, the outcome.
Call(op, p, K, arg, res) ==
    [op |-> op, p |-> p, K |-> K, arg |-> arg, ok |-> res.ok,
     err |-> IF res.ok THEN "" ELSE res.e]

\* The text a caller holds, and the quantities it was spelt from (None for a
\* text that was not spelt from quantities).
Held(text, parts) == [text |-> text, parts |-> parts]

NoText == Held(<<>>, None)

Init ==
    /\ host \in Hosts
    /\ doc = Default(host)
    /\ last = Call("new", "", "", None, Ok("self"))
    /\ held = NoText

DoSet ==
    \E p \in Props(host) : \E K \in KindsOf(Desc(host, p)) : \E it \in ItemsFor(K) :
        LET r == Set(host, doc, p, K, it)
        IN  /\ doc' = r.doc
            /\ last' = Call("set", p, K, it, r.res)
            /\ UNCHANGED <<host, held>>

DoSetMany ==
    \E p \in Props(host) : \E K \in KindsOf(Desc(host, p)) :
      \E its \in ItemLists[K] :
        /\ ~Desc(host, p).functional
        /\ LET r == SetMany(host, doc, p, K, its)
           IN  /\ doc' = r.doc
               /\ last' = Call("set_many", p, K, its, r.res)
               /\ UNCHANGED <<host, held>>

DoDelete ==
    \E p \in Props(host) :
        /\ HasDelete(Desc(host, p))
        /\ LET r == Delete(host, doc, p)
           IN  /\ doc' = r.doc
               /\ last' = Call("delete", p, "", None, r.res)
               /\ UNCHANGED <<host, held>>

\* serde_json::from_str of a document; on an error no struct is produced and
\* the caller keeps the one it has.
DoDecode ==
    LET base == Serialize(host, doc)
    IN  \E p \in Props(host) : \E key \in ReadKeys(host, p) :
          \E j \in Documents[host][p] :
            LET r == Deserialize(host, Rewritten(host, base, p, key, j))
            IN  /\ doc' = IF r.ok THEN r.v ELSE doc
                /\ last' = Call("decode", p, key, j, r)
                /\ UNCHANGED <<host, held>>

Next == DoSet \/ DoSetMany \/ DoDelete \/ DoDecode

Spec == Init /\ [][Next]_vars

-----------------------------------------------------------------------------
(* The duration codec at work: the caller of a Video holds a duration text, *)
(* hands it to set_duration or decodes a document carrying it, and encodes  *)
(* the document, which leaves the caller with the text written.             *)

\* The quantities a text is spelt from; None is a pair left out.
YearsSpelt == {None, Some(1), Some(2)}
MonthsSpelt == {None, Some(2)}
DaysSpelt == {None, Some(0), Some(3), Some(4)}
HoursSpelt == {None, Some(4), Some(25)}
MinutesSpelt == {None, Some(4), Some(5)}
SecondsSpelt == {None, Some(5), Some(6), Some(20), Some(90)}

\* What is written before the pairs: no sign, the sign before the P, the sign
\* after the P.
Prefixes == {<<"P">>, <<"-", "P">>, <<"P", "-">>}

Parts ==
    [pre : Prefixes, y : YearsSpelt, mo : MonthsSpelt, d : DaysSpelt,
     t : BOOLEAN, h : HoursSpelt, mi : MinutesSpelt, s : SecondsSpelt]

Pair(q, c) == IF q = None THEN <<>> ELSE FormatI64(q.x) \o <<c>>

\* pre nY nM nD [T] nH nM nS
Spelt(c) ==
    c.pre \o Pair(c.y, "Y") \o Pair(c.mo, "M") \o Pair(c.d, "D")
          \o (IF c.t THEN <<"T">> ELSE <<>>)
          \o Pair(c.h, "H") \o Pair(c.mi, "M") \o Pair(c.s, "S")

\* Texts that are no spelling of quantities.
OddTexts ==
    {<<>>, <<"5", "S">>, <<"P", "5">>, <<"P", "D">>, <<"P", "1", "D", "7">>,
     <<"P", "1", "H">>, <<"P", "1", "D", "2", "Y">>,
     <<"P", "T", "1", "S", "2", "H">>, <<"P", "P", "1", "D">>,
     <<"P", "-", "-", "1", "D">>, <<"P", "+", "1", "D">>,
     <<"P", "1", "D", "T", "-", "2", "H">>, <<"P", "T", "0", ".", "5", "S">>,
     <<"P", "T", "1", "H", "5", "M">>, <<"P", "T", "6", "5", "M">>,
     <<"P", "3", "D", "1", "M">>, <<"P", "T", "5", "S", "1", "M">>}

\* The orders the designators of a segment can be written in, each at most
\* once.
Orders(S) ==
    {q \in SeqsUpTo(S, Cardinality(S)) : \A i, k \in 1..Len(q) : q[i] = q[k] => i = k}

\* The designators q, the i-th after the number i.
Numbered(q) ==
    [i \in 1..(2 * Len(q)) |->
        IF i % 2 = 1 THEN Digits[(i + 1) \div 2 + 1] ELSE q[i \div 2]]

\* Texts whose pairs stand in any order within the date and the time part.
ShuffledTexts ==
    {<<"P">> \o Numbered(a) \o (IF b = <<>> THEN <<>> ELSE <<"T">> \o Numbered(b)) :
        a \in Orders({"Y", "M", "D"}), b \in Orders({"H", "M", "S"})}

DurationInit ==
    /\ host = "Video"
    /\ doc = Default(host)
    /\ last = Call("new", "", "", None, Ok("self"))
    /\ held \in {Held(Spelt(c), Some(c)) : c \in Parts}
                  \cup {Held(t, None) : t \in OddTexts \cup ShuffledTexts}

\* set_duration(text), as generated for a functional, non-required property
\* of one kind: self.duration = Some(item.try_into()?); Ok(self)
SetHeld ==
    LET c == from_str(held.text)
    IN  /\ doc' = IF c.ok THEN [doc EXCEPT !["duration"] = Some(c.v)] ELSE doc
        /\ last' = Call("set", "duration", "XsdDuration", StrItem(held.text),
                        IF c.ok THEN Ok("self") ELSE c)
        /\ UNCHANGED <<host, held>>

\* serde_json::from_str of {"duration": text}; on an error the caller keeps
\* the document it has.
DecodeHeld ==
    LET r == DeXsdDuration(JStr(held.text))
    IN  /\ doc' = IF r.ok THEN [doc EXCEPT !["duration"] = Some(r.v)] ELSE doc
        /\ last' = Call("decode", "duration", KeyOf(host, "duration"),
                        JStr(held.text), r)
        /\ UNCHANGED <<host, held>>

\* serde_json::to_string of the document: the caller now holds the text
\* written for the duration.
EncodeHeld ==
    /\ doc["duration"] # None
    /\ held' = Held(SerXsdDuration(doc["duration"].x).s, None)
    /\ last' = Call("encode", "duration", KeyOf(host, "duration"),
                    doc["duration"], Ok("self"))
    /\ UNCHANGED <<host, doc>>

DurationNext == SetHeld \/ DecodeHeld \/ EncodeHeld

DurationSpec == DurationInit /\ [][DurationNext]_vars

-----------------------------------------------------------------------------
(* The claims.                                                             *)

\* The descriptor of the property the last call was made on.
LastDesc == Desc(host, last.p)

\* The stored value of the last call's property, without its Option.
LastStored == Unwrapped(LastDesc, doc[last.p])

\* C1: the encoding of a non-functional, non-required property that holds
\* the empty collection Array([]) omits the field: the encoded document never
\* carries the key with the value [] or null.
C1_EmptyCollectionOmitted ==
    \A p \in Props(host) :
        LET d == Desc(host, p)
            w == Serialize(host, doc)
        IN  (~d.functional /\ ~d.required) =>
                /\ doc[p] = Some(Array(<<>>)) => KeyOf(host, p) \notin DOMAIN w
                /\ KeyOf(host, p) \in DOMAIN w =>
                       w[KeyOf(host, p)] \notin {JArr(<<>>), JNull}

\* C2: on a non-functional property of one kind, a decoded bare scalar is
\* stored as Term(v) and a decoded one-element array as Array([v]); get gives
\* v for the Term and no value for the one-element Array, and each state
\* encodes to the shape it was decoded from.
C2_TermAndSingletonDistinct ==
    (last.op = "decode" /\ last.ok /\ SingleKind(LastDesc) /\ ~LastDesc.functional) =>
        LET K == LastDesc.kinds[1]
            j == last.arg
            w == Serialize(host, doc)
        IN  /\ j.t = "str" =>
                 /\ LastStored.c = "Term"
                 /\ SerKind(LastStored.t) = j
                 /\ Get(host, doc, last.p, K) = Some(LastStored.t)
                 /\ GetMany(host, doc, last.p, K) = None
                 /\ w[KeyOf(host, last.p)] = j
            /\ (j.t = "arr" /\ Len(j.a) = 1) =>
                 /\ LastStored.c = "Array"
                 /\ Len(LastStored.a) = 1
                 /\ SerKind(LastStored.a[1]) = j.a[1]
                 /\ Get(host, doc, last.p, K) = None
                 /\ GetMany(host, doc, last.p, K) = Some(LastStored.a)
                 /\ w[KeyOf(host, last.p)] = j

C2_Witness ==
    /\ host = "ApActor"
    /\ last.op = "decode" /\ last.ok /\ last.p = "streams"
    /\ last.arg = JArr(<<JStr(UriText)>>)
    /\ doc["streams"] = Some(Array(<<XsdAnyUri(UriText)>>))

\* C3: on a non-functional property get_many gives the list exactly when an
\* Array is stored, and then that list; for a stored Term and for an absent
\* property it gives no value, never a one-element list around the Term.
C3_GetManyOnlyForArray ==
    \A p \in Props(host) : \A K \in KindsOf(Desc(host, p)) :
        LET d == Desc(host, p)
        IN  ~d.functional =>
              /\ (~d.required /\ doc[p] = None) => GetMany(host, doc, p, K) = None
              /\ (d.required \/ doc[p] # None) =>
                    /\ Unwrapped(d, doc[p]).c = "Term" =>
                          GetMany(host, doc, p, K) = None
                    /\ Unwrapped(d, doc[p]).c = "Array" =>
                          GetMany(host, doc, p, K) = Some(Unwrapped(d, doc[p]).a)
              /\ (last.op = "set" /\ last.ok /\ last.p = p) =>
                    GetMany(host, doc, p, K) = None

C3_Witness ==
    /\ last.op = "set" /\ last.ok /\ ~LastDesc.functional
    /\ LastStored.c = "Term"
    /\ GetMany(host, doc, last.p, last.K) = None

\* C4: a set whose input does not convert to the kind returns the conversion
\* error and leaves the stored state as it was, on every property shape.
C4_FailedSetChangesNothing ==
    [][(last'.op = "set" /\ ~TryInto(last'.K, last'.arg).ok) =>
          /\ ~last'.ok
          /\ last'.err = "conversion failed"
          /\ doc' = doc]_vars

C4_Witness ==
    /\ last.op = "set" /\ ~last.ok
    /\ ~SingleKind(LastDesc) /\ ~LastDesc.functional /\ ~LastDesc.required
    /\ doc[last.p] # None

\* C5: set_many converts every element before it commits: if an element at
\* any position does not convert, the error is returned and the property is
\* unchanged; otherwise the property becomes Array of the converted elements
\* in the order given.
C5_SetManyAllOrNothing ==
    [][last'.op = "set_many" =>
          LET its == last'.arg
              d == Desc(host, last'.p)
          IN  IF \E i \in 1..Len(its) : ~TryInto(last'.K, its[i]).ok
              THEN ~last'.ok /\ doc' = doc
              ELSE /\ last'.ok
                   /\ doc' = [doc EXCEPT ![last'.p] =
                         Wrapped(d, Array([i \in 1..Len(its) |->
                                              TryInto(last'.K, its[i]).v]))]]_vars

C5_Witness ==
    /\ last.op = "set_many" /\ ~last.ok
    /\ Len(last.arg) = 2
    /\ TryInto(last.K, last.arg[1]).ok
    /\ ~TryInto(last.K, last.arg[2]).ok
    /\ doc[last.p] # None
    /\ LastStored.c = "Array" /\ Len(LastStored.a) = 1

\* The kinds of descriptor d, by position, that read the JSON value j.
Reading(d, j) == {i \in 1..Len(d.kinds) : DeKind(d.kinds[i], j).ok}

\* C6: decoding a property of several kinds commits to the first declared
\* kind that reads the value: a value that two kinds read is stored as the
\* earlier one, and get for the later one gives no value.
C6_FirstDeclaredKindWins ==
    (/\ last.op = "decode" /\ last.ok
     /\ ~SingleKind(LastDesc)
     /\ last.arg \notin {Absent, JNull}
     /\ Reading(LastDesc, last.arg) # {}) =>
        \A i \in Reading(LastDesc, last.arg) :
            IF \A k \in Reading(LastDesc, last.arg) : i <= k
            THEN Get(host, doc, last.p, LastDesc.kinds[i]) =
                     Some(DeKind(LastDesc.kinds[i], last.arg).v)
            ELSE Get(host, doc, last.p, LastDesc.kinds[i]) = None

C6_Witness ==
    /\ host = "Place"
    /\ last.op = "decode" /\ last.ok /\ last.p = "units"
    /\ last.arg = JStr(UriText)
    /\ Reading(LastDesc, last.arg) = {1, 2}
    /\ Get(host, doc, "units", "XsdAnyUri") = Some(XsdAnyUri(UriText))
    /\ Get(host, doc, "units", "XsdString") = None

\* C7: on a non-functional property a decoded JSON array is always stored as
\* Array, each element decoded against the element kind, and never as Term;
\* a decoded scalar or object is stored as Term.
C7_ArrayDecodesAsArray ==
    (/\ last.op = "decode" /\ last.ok
     /\ ~LastDesc.functional
     /\ last.arg \notin {Absent, JNull}) =>
        IF last.arg.t = "arr"
        THEN /\ LastStored.c = "Array"
             /\ Len(LastStored.a) = Len(last.arg.a)
             /\ \A i \in 1..Len(last.arg.a) :
                    LastStored.a[i] = DeElem(LastDesc, last.arg.a[i]).v
        ELSE LastStored.c = "Term"

\* C8: decoding a document that lacks the key of a required property fails
\* with the missing-field error on every shape; the property is never filled
\* with a default.
C8_MissingRequiredFails ==
    (/\ last.op = "decode"
     /\ last.arg = Absent
     /\ LastDesc.required) =>
        ~last.ok /\ last.err = "missing field"

C8_Witness ==
    /\ last.op = "decode" /\ last.arg = Absent /\ ~last.ok
    /\ LastDesc.required /\ ~SingleKind(LastDesc) /\ ~LastDesc.functional

\* C9: a delete operation is generated for every property declared without
\* `required`, of one kind or several, functional or not, and for no
\* required property.
C9_DeleteForEveryOptional ==
    \A p \in Props(host) : HasDelete(Desc(host, p)) <=> ~Desc(host, p).required

\* C10: delete leaves the property absent whatever was stored: every get and
\* get_many gives no value and the encoding omits the key; a second delete,
\* and a delete of an absent property, change nothing.
C10_DeleteResets ==
    /\ last.op = "delete" =>
          /\ doc[last.p] = None
          /\ \A K \in KindsOf(LastDesc) :
                /\ Get(host, doc, last.p, K) = None
                /\ GetMany(host, doc, last.p, K) = None
          /\ KeyOf(host, last.p) \notin DOMAIN Serialize(host, doc)
          /\ Delete(host, doc, last.p).doc = doc
    /\ \A p \in Props(host) :
          (HasDelete(Desc(host, p)) /\ doc[p] = None) =>
              Delete(host, doc, p).doc = doc

C10_Witness ==
    /\ last.op = "delete"
    /\ doc[last.p] = None
    /\ KeyOf(host, last.p) \notin DOMAIN Serialize(host, doc)

-----------------------------------------------------------------------------
(* The claims on the duration codec, under DurationSpec.                    *)

\* The text the last set_duration or decode was given is the one held.
ParsedHeld == last.op \in {"set", "decode"}

\* The duration stored.
StoredDuration == doc["duration"].x

\* C11: a minus sign may stand before the P: whenever "P" r parses to d,
\* "-P" r parses to -d; "-PT5S" is minus five seconds.
C11_MinusBeforeP ==
    (ParsedHeld /\ last.ok /\ held.text[1] = "P") =>
        LET r == from_str(<<"-">> \o held.text)
        IN  r.ok /\ r.v.secs = 0 - StoredDuration.secs

\* The quantity of a pair, 0 for a pair left out.
Quantity(q) == IF q = None THEN 0 ELSE q.x

\* The T is written exactly when a pair of the time part is.
TimeMarked(c) == c.t <=> (c.h # None \/ c.mi # None \/ c.s # None)

C13_FormatIdempotent ==
    last.op = "encode" =>
        LET r == from_str(held.text)
        IN  /\ r.ok
            /\ fmt(r.v) = held.text
            /\ r.v = StoredDuration

\* A signed text of 90 seconds has been parsed and written as 1 minute 30.
C13_Witness ==
    /\ last.op = "encode"
    /\ StoredDuration.secs = 0 - 90
    /\ held.text = <<"P", "-", "T", "1", "M", "3", "0", "S">>

\* A text in canonical form: no Y or M pair before the T, no pair of 0,
\* hours 1..23, minutes 1..59, seconds 1..59, T exactly with a time pair, and
\* the sign, when there is one, before the P.
Canonical(c) ==
    /\ c.pre \in {<<"P">>, <<"-", "P">>}
    /\ c.y = None /\ c.mo = None
    /\ c.d # Some(0)
    /\ c.h # None => c.h.x \in 1..23
    /\ c.mi # None => c.mi.x \in 1..59
    /\ c.s # None => c.s.x \in 1..59
    /\ TimeMarked(c)

\* C14: a text in canonical form parses, and the duration is written back as
\* the same text, character for character; {"duration": "PT4M20S"} decodes
\* to 260 seconds and encodes to {"duration": "PT4M20S"}.
C14_CanonicalTextKept ==
    (ParsedHeld /\ held.parts # None /\ Canonical(held.parts.x)) =>
        /\ last.ok
        /\ fmt(StoredDuration) = held.text
        /\ SerXsdDuration(StoredDuration) = JStr(held.text)

\* Eat(s, c): s without a leading number and its designator c, when it
\* starts with one.
Eat(s, c) ==
    LET n == CHOOSE n \in 0..Len(s) :
                 /\ \A i \in 1..n : IsDigit(s[i])
                 /\ n = Len(s) \/ ~IsDigit(s[n + 1])
    IN  IF n > 0 /\ n < Len(s) /\ s[n + 1] = c THEN SubSeq(s, n + 2, Len(s)) ELSE s

\* [-]P[nD][T[nH][nM][nS]]
InProfile(s) ==
    LET a == IF s # <<>> /\ s[1] = "-" THEN Tail(s) ELSE s
        b == Eat(Tail(a), "D")
    IN  /\ a # <<>> /\ a[1] = "P"
        /\ \/ b = <<>>
           \/ b[1] = "T" /\ Eat(Eat(Eat(Tail(b), "H"), "M"), "S") = <<>>

\* C15: the text written for a duration has the form
\* [-]P[nD][T[nH][nM][nS]]; the minus sign of a negative duration is written
\* before the P.
C15_SignBeforeP ==
    last.op = "encode" =>
        /\ InProfile(held.text)
        /\ StoredDuration.secs < 0 => held.text[1] = "-"

\* A number followed by a designator stands somewhere in the text.
HasPair(s) ==
    \E i \in 1..(Len(s) - 1) :
        IsDigit(s[i]) /\ s[i + 1] \in {"Y", "M", "D", "H", "S"}

\* C21: at least one number and its designator must appear: a text without
\* one (the bare "P") does not parse, and the text written for a duration,
\* the zero duration included, holds at least one.
C21_SomeQuantityDemanded ==
    /\ (ParsedHeld /\ last.ok) => HasPair(held.text)
    /\ last.op = "encode" => HasPair(held.text)

\* A quantity with its designator, written only when it is above 0.
Emitted(n, c) == IF n > 0 THEN FormatI64(n) \o <<c>> ELSE <<>>

\* The days, hours, minutes and seconds of a number of seconds.
DaysOf(n) == n \div 86400
HoursOf(n) == (n % 86400) \div 3600
MinutesOf(n) == (n % 3600) \div 60
SecondsOf(n) == n % 60

MaxHours == 2

HourMinuteDurations ==
    {XsdDuration(h * 3600 + mi * 60) : h \in 0..MaxHours, mi \in 1..59}

\* C24, as stated: there are durations of whole hours and minutes, with
\* minutes that are not 0 and seconds that are 0 (1 hour 5 minutes), for
\* which the text written holds the hours or minutes quantity and no T.  The
\* durations looked at are the one just written and HourMinuteDurations.
C24_MarkerLostForWholeMinutes ==
    last.op = "encode" =>
        \E v \in HourMinuteDurations \cup {StoredDuration} :
            /\ v.secs > 0 /\ MinutesOf(v.secs) > 0 /\ SecondsOf(v.secs) = 0
            /\ \E i \in 1..Len(fmt(v)) : fmt(v)[i] \in {"H", "M"}
            /\ Find(fmt(v), "T") = None

\* C24, amended: for every duration whose minutes are not 0 and whose seconds
\* are 0 the text written holds the T, before the hours and minutes
\* quantities: 1 hour 5 minutes is written "PT1H5M".
C24_MarkerKeptForWholeMinutes ==
    LET n == IF StoredDuration.secs < 0 THEN 0 - StoredDuration.secs
             ELSE StoredDuration.secs
    IN  (last.op = "encode" /\ MinutesOf(n) > 0 /\ SecondsOf(n) = 0) =>
            /\ Find(held.text, "T") # None
            /\ \A i \in 1..Len(held.text) :
                  held.text[i] \in {"H", "M"} => Find(held.text, "T").x + 1 < i

\* 1 hour 5 minutes was written as "PT1H5M".
C24_Witness ==
    /\ last.op = "encode"
    /\ StoredDuration.secs = 3900
    /\ held.text = <<"P", "T", "1", "H", "5", "M">>

\* Taken(s, c): s without a leading integer (with its sign, if any) and its
\* designator c, when it starts with one.
Taken(s, c) ==
    LET n == CHOOSE n \in 0..Len(s) :
                 /\ \A i \in 1..n : IsDigit(s[i]) \/ s[i] \in {"+", "-"}
                 /\ n = Len(s) \/ ~(IsDigit(s[n + 1]) \/ s[n + 1] \in {"+", "-"})
    IN  IF n > 0 /\ n < Len(s) /\ s[n + 1] = c /\ ParseI64(SubSeq(s, 1, n)).ok
        THEN SubSeq(s, n + 2, Len(s)) ELSE s

\* Every character of the text is a leading P or sign, an integer before its
\* designator, or the T.
Consumed(s) ==
    LET a == TrimStartMatches(TrimStartMatches(s, "P"), "-")
        b == Taken(Taken(Taken(a, "Y"), "M"), "D")
    IN  \/ b = <<>>
        \/ b[1] = "T" /\ Taken(Taken(Taken(Tail(b), "H"), "M"), "S") = <<>>

\* C25: a text holding characters that are not consumed as an integer before
\* its designator is a parse error: "P5", "P1D7", "P1H" and "PD" are; parse
\* never succeeds while part of its input is ignored.
C25_UnconsumedTextRejected ==
    ParsedHeld =>
        /\ held.text \in {<<"P", "5">>, <<"P", "1", "D", "7">>,
                          <<"P", "1", "H">>, <<"P", "D">>} =>
              ~last.ok /\ last.err = "Could not parse Duration"
        /\ last.ok => Consumed(held.text)

\* The designators of `among` in a segment, as they stand.
Designators(seg, among) == SelectSeq(seg, LAMBDA c : c \in among)

\* The designators q are each written once.
OnceEach(q) == \A i, k \in 1..Len(q) : q[i] = q[k] => i = k

\* The designators q stand in the order `order` gives them.
InOrder(q, order) ==
    \A i, k \in 1..Len(q) :
        i < k => \E m, n \in 1..Len(order) : m < n /\ order[m] = q[i] /\ order[n] = q[k]

\* The date part and the time part of a text that starts with P.
DatePart(s) ==
    IF Find(Tail(s), "T") = None THEN Tail(s)
    ELSE SubSeq(Tail(s), 1, Find(Tail(s), "T").x)

TimePart(s) ==
    IF Find(Tail(s), "T") = None THEN <<>>
    ELSE SubSeq(Tail(s), Find(Tail(s), "T").x + 2, Len(Tail(s)))

\* C30: within each part the designators must stand in their order, Y, M, D
\* before the T and H, M, S after it: a text in which each designator stands
\* at most once in its part and one stands before an earlier one ("P1D2Y",
\* "P3D1M", "PT1S2H", "PT5S1M") is a parse error, and no duration is stored.
C30_DesignatorOrderEnforced ==
    LET date == Designators(DatePart(held.text), {"Y", "M", "D"})
        time == Designators(TimePart(held.text), {"H", "M", "S"})
    IN  (/\ ParsedHeld
         /\ held.text # <<>> /\ held.text[1] = "P"
         /\ OnceEach(date) /\ OnceEach(time)
         /\ ~InOrder(date, <<"Y", "M", "D">>) \/ ~InOrder(time, <<"H", "M", "S">>)) =>
            /\ ~last.ok
            /\ last.err = "Could not parse Duration"
            /\ doc["duration"] = None

\* "PT5S1M" was handed to set_duration and refused.
C30_Witness ==
    /\ last.op = "set" /\ ~last.ok
    /\ held.text = <<"P", "T", "5", "S", "1", "M">>
    /\ doc["duration"] = None

-----------------------------------------------------------------------------
(* Further claims on the generated types and accessors, under Spec.         *)

\* C16: decoding a document without the key of a non-functional,
\* non-required property stores the empty collection Array([]): get gives no
\* value, get_many gives the empty list, and encoding leaves the key out
\* again.
C16_AbsenceIsEmptyCollection ==
    (/\ last.op = "decode" /\ last.ok /\ last.arg = Absent
     /\ ~LastDesc.functional /\ ~LastDesc.required) =>
        /\ doc[last.p] = Some(Array(<<>>))
        /\ \A K \in KindsOf(LastDesc) :
              /\ Get(host, doc, last.p, K) = None
              /\ GetMany(host, doc, last.p, K) = Some(<<>>)
        /\ KeyOf(host, last.p) \notin DOMAIN Serialize(host, doc)

\* The one value a property holds: the value of a functional property, the
\* Term of a non-functional one; None when absent and for an Array.
SingleValue(d, x) ==
    IF ~d.required /\ x = None THEN None
    ELSE IF d.functional THEN Some(Unwrapped(d, x))
    ELSE IF Unwrapped(d, x).c = "Term" THEN Some(Unwrapped(d, x).t)
    ELSE None

\* C18: on a property of several kinds get_<K> gives the stored value exactly
\* when one value is stored and its kind is K, and no value otherwise (absent,
\* Array, other kind); after a successful set_<A>(v), get_<A> gives v and
\* get_<B> gives no value for every other kind B.
C18_UnionGetByKind ==
    /\ \A p \in Props(host) : \A K \in KindsOf(Desc(host, p)) :
          LET d == Desc(host, p)
              one == SingleValue(d, doc[p])
          IN  ~SingleKind(d) =>
                  Get(host, doc, p, K) =
                      IF one # None /\ one.x.k = K THEN one ELSE None
    /\ (last.op = "set" /\ last.ok /\ ~SingleKind(LastDesc)) =>
          \A K \in KindsOf(LastDesc) :
              Get(host, doc, last.p, K) =
                  IF K = last.K THEN Some(TryInto(last.K, last.arg).v) ELSE None

\* A union holds a string set as its second kind.
C18_Witness ==
    /\ host = "Place" /\ last.op = "set" /\ last.ok /\ last.K = "XsdString"
    /\ Get(host, doc, "units", "XsdString") = Some(XsdString(UriText))
    /\ Get(host, doc, "units", "XsdAnyUri") = None

\* C19: on a non-functional property of several kinds get_many_<K>s gives
\* values of kind K only: after an array of mixed kinds is decoded,
\* get_many_<A>s holds no element of kind B.
C19_GetManyUniformlyTyped ==
    \A p \in Props(host) : \A K \in KindsOf(Desc(host, p)) :
        LET d == Desc(host, p)
            many == GetMany(host, doc, p, K)
        IN  (~SingleKind(d) /\ ~d.functional /\ many # None) =>
                \A i \in 1..Len(many.x) : many.x[i].k = K

\* C20: a set, set_many or delete, whether it succeeds or fails, leaves every
\* other property of the document as it was.
C20_WritesTouchOneProperty ==
    [][last'.op \in {"set", "set_many", "delete"} =>
          \A q \in Props(host) \ {last'.p} : doc'[q] = doc[q]]_vars

\* A write was made on a document whose other property is not at its default.
C20_Witness ==
    /\ last.op \in {"set", "set_many", "delete"} /\ last.ok
    /\ \E q \in Props(host) \ {last.p} : doc[q] # DefaultField(Desc(host, q))

\* The key the claim gives a property: its rename, else the camel-case form
\* of its declared name.
ClaimedKey(h, p) ==
    IF Desc(h, p).rename # None THEN Desc(h, p).rename.x
    ELSE Joined(CamelCase(Spelling[p]))

\* C17: a property is encoded under its rename if it has one and else under
\* the camel-case form of its name (former_type under "formerType"), never
\* under an alias; a document that carries the value under an alias decodes
\* as the same document carrying it under the canonical key does.
C17_WireKeys ==
    LET w == Serialize(host, doc)
    IN  /\ DOMAIN w \subseteq {ClaimedKey(host, p) : p \in Props(host)}
        /\ \A p \in Props(host) :
              (Desc(host, p).required \/ doc[p] # None) =>
                  ClaimedKey(host, p) \in DOMAIN w
        /\ host = "Tombstone" => DOMAIN w \subseteq {"formerType"}
        /\ host = "Your" => DOMAIN w \subseteq {"@context"}
        /\ host = "Object" => DOMAIN w \subseteq {"id", "summary"}
        /\ (last.op = "decode" /\ last.arg # Absent
              /\ last.K # ClaimedKey(host, last.p)) =>
              LET r == DeField(host, last.p, ClaimedKey(host, last.p) :> last.arg)
              IN  /\ last.ok = r.ok
                  /\ last.ok => doc[last.p] = r.v

\* An id was decoded under its alias "@id" and is encoded under "id".
C17_Witness ==
    /\ host = "Object" /\ last.op = "decode" /\ last.ok
    /\ last.p = "id" /\ last.K = "@id" /\ last.arg = JStr(UriText)
    /\ doc["id"] = Some(XsdAnyUri(UriText))
    /\ Serialize(host, doc)["id"] = JStr(UriText)

\* C22: after a successful set on a non-functional property the stored value
\* is exactly Term(v), get for the kind written gives the converted value v
\* and get_many gives no value; on a functional property the value is stored
\* as it is, in Some(..) only when the property is not required, and get
\* gives it.
C22_SetStoresOneValue ==
    (last.op = "set" /\ last.ok) =>
        LET d == LastDesc
            v == TryInto(last.K, last.arg).v
        IN  /\ doc[last.p] =
                  IF d.functional
                  THEN (IF d.required THEN v ELSE Some(v))
                  ELSE (IF d.required THEN Term(v) ELSE Some(Term(v)))
            /\ Get(host, doc, last.p, last.K) = Some(v)
            /\ ~d.functional => GetMany(host, doc, last.p, last.K) = None

\* A string was set on the required, non-functional `items` of a Collection.
C22_Witness ==
    /\ host = "Collection" /\ last.op = "set" /\ last.ok /\ last.K = "XsdString"
    /\ doc["items"] = Term(XsdString(PlainText))
    /\ Get(host, doc, "items", "XsdString") = Some(XsdString(PlainText))
    /\ GetMany(host, doc, "items", "XsdString") = None

\* A stored value y has the shape of descriptor d: the kind itself or one of
\* the kinds when d is functional, else Term of one or Array of them.
HasShape(d, y) ==
    IF d.functional
    THEN /\ DOMAIN y \cap {"c", "o"} = {}
         /\ y.k \in KindsOf(d)
    ELSE /\ "c" \in DOMAIN y
         /\ \/ y.c = "Term" /\ DOMAIN y.t \cap {"c", "o"} = {} /\ y.t.k \in KindsOf(d)
            \/ y.c = "Array" /\ \A i \in 1..Len(y.a) :
                                   DOMAIN y.a[i] \cap {"c", "o"} = {} /\ y.a[i].k \in KindsOf(d)

\* C26: the stored representation of a property follows from whether it has
\* one kind, whether it is functional and whether it is required: the kind,
\* an enum of the kinds, or Term/Array of either; in an Option exactly when
\* it is not required.  get and set are generated always, get_many and
\* set_many exactly for a non-functional property, and the names carry the
\* kind exactly for a property of several kinds.
C26_ShapeFromDescriptor ==
    /\ \A p \in Props(host) :
          LET d == Desc(host, p)
              acc == {a \in Accessors(d) : a.op # "delete"}
          IN  /\ IF d.required THEN HasShape(d, doc[p])
                 ELSE doc[p] = None \/ (doc[p].o = "Some" /\ HasShape(d, doc[p].x))
              /\ {a.op : a \in acc} =
                    IF d.functional THEN {"get", "set"}
                    ELSE {"get", "set", "get_many", "set_many"}
              /\ \A a \in acc :
                    IF SingleKind(d) THEN a.kind = None
                    ELSE a.kind # None /\ a.kind.x \in KindsOf(d)
              /\ ~SingleKind(d) =>
                    \A K \in KindsOf(d) : \A o \in {a.op : a \in acc} :
                        [op |-> o, kind |-> Some(K)] \in acc
    /\ last.op \in {"set", "set_many"} =>
          [op |-> last.op,
           kind |-> IF SingleKind(LastDesc) THEN None ELSE Some(last.K)]
              \in Accessors(LastDesc)

\* Both required properties of My hold what was written: a Term of one kind
\* or an Array of it, and one of two kinds, none in an Option.
C26_Witness ==
    /\ host = "My" /\ last.op \in {"set", "set_many"} /\ last.ok
    /\ doc["mirrors"] # DefaultField(Desc(host, "mirrors"))
    /\ doc["origin"] = XsdString(PlainText)

\* C27: on a non-functional property at most one read gives a value: when
\* get for a kind gives a value, get_many gives none and get for every other
\* kind gives none; when get_many gives a list, every get gives none.  (The
\* reads take `&self`: they are functions of the stored state and leave it
\* as it is.)
C27_OneReadYieldsValue ==
    \A p \in Props(host) :
        LET d == Desc(host, p)
        IN  ~d.functional =>
              \A K \in KindsOf(d) :
                  /\ Get(host, doc, p, K) # None =>
                        \A J \in KindsOf(d) :
                            /\ GetMany(host, doc, p, J) = None
                            /\ J # K => Get(host, doc, p, J) = None
                  /\ GetMany(host, doc, p, K) # None =>
                        \A J \in KindsOf(d) : Get(host, doc, p, J) = None

\* A summary holds an Array of two strings: get_many gives it, no get gives
\* a value.
C27_Witness ==
    /\ host = "Object" /\ doc["summary"] # None
    /\ doc["summary"].x.c = "Array" /\ Len(doc["summary"].x.a) = MaxLen
    /\ GetMany(host, doc, "summary", "XsdString") = Some(doc["summary"].x.a)
    /\ Get(host, doc, "summary", "XsdString") = None
    /\ Get(host, doc, "summary", "RdfLangString") = None

\* The position of kind K among the kinds of d.
KindIndex(d, K) == CHOOSE i \in 1..Len(d.kinds) : d.kinds[i] = K

\* C28: encoding a document and decoding the result changes the kind of a
\* value of a property of several kinds when an earlier declared kind reads
\* its encoding: after set_<B>(v) the decoded document gives the value by
\* get_<A>, A the first kind that reads the encoding, and no value by
\* get_<B> (units, declared [XsdAnyUri, XsdString], holding a string that is
\* an absolute URI).  When no earlier kind reads the encoding the decoded
\* property is the one encoded, kind and value.
C28_RoundTripTakesFirstKind ==
    \A p \in Props(host) :
        LET d == Desc(host, p)
            one == SingleValue(d, doc[p])
            r == Deserialize(host, Serialize(host, doc))
        IN  (~SingleKind(d) /\ one # None) =>
                LET B == one.x.k
                    earlier == {i \in Reading(d, SerKind(one.x)) : i < KindIndex(d, B)}
                IN  /\ r.ok
                    /\ IF earlier = {}
                       THEN /\ r.v[p] = doc[p]
                            /\ Get(host, r.v, p, B) = Some(one.x)
                       ELSE LET A == d.kinds[CHOOSE i \in earlier : \A k \in earlier : i <= k]
                            IN  /\ Get(host, r.v, p, A) = Some(DeKind(A, SerKind(one.x)).v)
                                /\ Get(host, r.v, p, B) = None
                                /\ SingleValue(d, r.v[p]) # None
                                /\ SingleValue(d, r.v[p]).x.k = A

\* The units of a Place were set as a string that is an absolute URI; the
\* document encoded and decoded holds an XsdAnyUri.
C28_Witness ==
    /\ host = "Place" /\ last.op = "set" /\ last.ok /\ last.K = "XsdString"
    /\ doc["units"] = Some(XsdString(UriText))
    /\ Deserialize(host, Serialize(host, doc)).v["units"] = Some(XsdAnyUri(UriText))

\* C29: a write replaces and never merges: after a successful set_<K>(v) a
\* non-functional property is exactly Term(v) whatever it held before, and
\* after a successful set_many_<K>(l) it is exactly Array(l), every element
\* of kind K, in the order given; nothing of what was stored is kept.
C29_WritesReplace ==
    [][(last'.op \in {"set", "set_many"} /\ last'.ok
          /\ ~Desc(host, last'.p).functional) =>
          LET d == Desc(host, last'.p)
              y == Unwrapped(d, doc'[last'.p])
          IN  /\ ~d.required => doc'[last'.p] # None
              /\ last'.op = "set" => y = Term(TryInto(last'.K, last'.arg).v)
              /\ last'.op = "set_many" =>
                    /\ y.c = "Array"
                    /\ Len(y.a) = Len(last'.arg)
                    /\ \A i \in 1..Len(y.a) :
                          /\ y.a[i] = TryInto(last'.K, last'.arg[i]).v
                          /\ y.a[i].k = last'.K]_vars

\* One link was written by set_many to the sources of Ours, which hold it
\* alone.
C29_Witness ==
    /\ host = "Our" /\ last.op = "set_many" /\ last.ok /\ last.K = "LinkBox"
    /\ Len(last.arg) = 1
    /\ doc["sources"] = Array(<<TryInto("LinkBox", last.arg[1]).v>>)

====
